---------------------------- MODULE Spec2Model ----------------------------
(***************************************************************************)
(* A model of lettersmith/util.py: the deep accessor, the update           *)
(* combinator, the lazy query combinators, the grouping decorator, the     *)
(* multi-key sort and the generic combinators (compose, chunk, tap_each).  *)
(*                                                                         *)
(* Python values are tagged tuples, so that values of different Python     *)
(* types are never equal:                                                  *)
(*     <<"none">>  <<"int", n>>  <<"str", chars>>  <<"list", seq>>         *)
(*     <<"tuple", seq>>  <<"dict", fn>>                                    *)
(* A string is the sequence of its characters; a dict is a function from   *)
(* its keys (values) to its values.                                        *)
(***************************************************************************)
EXTENDS Integers, Sequences, FiniteSets, TLC

VARIABLES
    op,         \* which operation of the module this run exercises
    pc,         \* where that operation stands
    args,       \* the arguments it was called with
    src,        \* the elements of the source iterable, in order
    srcPos,     \* how many elements have been pulled from the source iterable
    items,      \* a tuple materialised from the source (tuple(iter)), or a batch being built
    idx,        \* the position of a loop over groups
    out,        \* what the consumer has received so far, in order
    log,        \* the calls made to the caller's functions, in order
    ret,        \* the value returned, or the exception raised
    heap,       \* the mapping objects a wrapped function's defaults can be: the one default
                \* argument {} shared by all calls, and the mapping the caller passed
    calls       \* how many calls of the operation this run has made

vars == <<op, pc, args, src, srcPos, items, idx, out, log, ret, heap, calls>>

-----------------------------------------------------------------------------
(* Python values *)

None == <<"none">>

PyInt(n) == <<"int", n>>

PyStr(s) == <<"str", s>>

PyList(s) == <<"list", s>>

PyTuple(s) == <<"tuple", s>>

PyDict(f) == <<"dict", f>>

Tag(v) == v[1]

EmptyDict == PyDict([k \in {} |-> None])

\* The outcome of a call: a returned value or a raised exception.
Ok(v) == [exc |-> "", val |-> v]

Raise(e) == [exc |-> e, val |-> None]

NoRet == [exc |-> "pending", val |-> None]

\* Before any call: the shared default argument is {} and nothing was passed.
EmptyHeap == [shared |-> EmptyDict, passed |-> EmptyDict]

-----------------------------------------------------------------------------
(* The deep accessor *)

\* get(x, key, default=None): singledispatch on type(x); only dict is registered,
\* every other type reaches the base implementation, which raises TypeError.
get(x, key, default) ==
    IF Tag(x) = "dict"
    THEN Ok(IF key \in DOMAIN x[2] THEN x[2][key] ELSE default)
    ELSE Raise("TypeError")

\* str.split("."): the pieces between the separators, empty pieces included.
RECURSIVE SplitDot(_, _, _)
SplitDot(s, i, cur) ==
    IF i > Len(s) THEN <<PyStr(cur)>>
    ELSE IF s[i] = "." THEN <<PyStr(cur)>> \o SplitDot(s, i + 1, <<>>)
    ELSE SplitDot(s, i + 1, Append(cur, s[i]))

\* keys = key.split(".") if type(key) is str else tuple(key)
KeysOf(key) == IF Tag(key) = "str" THEN SplitDot(key[2], 1, <<>>) ELSE key[2]

\* The loop of get_deep from position i on: d = get(d, key); if d == None: return default
RECURSIVE GetDeepLoop(_, _, _, _)
GetDeepLoop(d, keys, i, default) ==
    IF i > Len(keys) THEN Ok(d)
    ELSE LET r == get(d, keys[i], None)
         IN  IF r.exc # "" THEN r
             ELSE IF r.val = None THEN Ok(default)
             ELSE GetDeepLoop(r.val, keys, i + 1, default)

get_deep(d, key, default) == GetDeepLoop(d, KeysOf(key), 1, default)

-----------------------------------------------------------------------------
(* Inputs of the deep accessor *)

\* The nesting depth of the documents of the accessor runs.
MaxDepth == 2

\* The longest dotted key string of the accessor runs.
MaxKeyLen == 3

KeyNames == {PyStr(<<"a">>), PyStr(<<"b">>)}

Leaves == {None, PyInt(0), PyStr(<<>>), PyList(<<>>)}

DictsOver(vals) ==
    {PyDict(f) : f \in UNION {[D -> vals] : D \in SUBSET KeyNames}}

RECURSIVE DocsOfDepth(_)
DocsOfDepth(n) ==
    IF n = 0 THEN {}
    ELSE DictsOver(Leaves \cup DocsOfDepth(n - 1))

SeqsUpTo(S, n) == UNION {[1..k -> S] : k \in 0..n}

KeyStrings == {PyStr(s) : s \in SeqsUpTo({"a", "b", "."}, MaxKeyLen)}

KeyTuples == {PyTuple(s) : s \in SeqsUpTo(KeyNames, MaxDepth)}

Defaults == {None, PyStr(<<"D">>)}

InitGetDeep ==
    /\ op = "get_deep"
    /\ pc = "ready"
    /\ args \in [d : DocsOfDepth(MaxDepth), key : KeyStrings \cup KeyTuples,
                 default : Defaults]
    /\ src = <<>> /\ srcPos = 0 /\ items = <<>> /\ idx = 0
    /\ out = <<>> /\ log = <<>> /\ ret = NoRet
    /\ heap = EmptyHeap /\ calls = 0

CallGetDeep ==
    /\ op = "get_deep" /\ pc = "ready"
    /\ ret' = get_deep(args.d, args.key, args.default)
    /\ pc' = "done"
    /\ calls' = calls + 1
    /\ UNCHANGED <<op, args, src, srcPos, items, idx, out, log, heap>>

SpecGetDeep == InitGetDeep /\ [][CallGetDeep]_vars

\* Descending the keys from d reaches a value that is not None.
RECURSIVE Reaches(_, _, _)
Reaches(d, keys, i) ==
    IF i > Len(keys) THEN d # None
    ELSE /\ Tag(d) = "dict"
         /\ keys[i] \in DOMAIN d[2]
         /\ Reaches(d[2][keys[i]], keys, i + 1)

Absent(d, key) == ~Reaches(d, KeysOf(key), 1)

\* C1: whenever the key path is absent from the document (a key is missing, a
\* value on the way is None, or the path continues below a value that is not a
\* mapping), get_deep returns the default and does not raise.
C1_AbsentGivesDefault ==
    (op = "get_deep" /\ pc = "done" /\ Absent(args.d, args.key))
        => ret = Ok(args.default)

-----------------------------------------------------------------------------
(* Ordering of Python values, and sorted() *)

\* ord(c) of the characters the runs use.
CharCode ==
    [c \in {"*", ".", "/", "?", "D", "a", "b", "d", "p", "w"} |->
        CASE c = "*" -> 42 [] c = "." -> 46 [] c = "/" -> 47 [] c = "?" -> 63
          [] c = "D" -> 68 [] c = "a" -> 97 [] c = "b" -> 98 [] c = "d" -> 100
          [] c = "p" -> 112 [] c = "w" -> 119]

\* s < t for two strings (lexicographic by character code), from position i on.
RECURSIVE StrLess(_, _, _)
StrLess(s, t, i) ==
    IF i > Len(t) THEN FALSE
    ELSE IF i > Len(s) THEN TRUE
    ELSE IF s[i] = t[i] THEN StrLess(s, t, i + 1)
    ELSE CharCode[s[i]] < CharCode[t[i]]

\* a < b for two Python values: "T", "F", or "TypeError" where Python has no
\* ordering between the two types (None, dicts, values of different types).
PyLess(a, b) ==
    IF Tag(a) = "int" /\ Tag(b) = "int" THEN (IF a[2] < b[2] THEN "T" ELSE "F")
    ELSE IF Tag(a) = "str" /\ Tag(b) = "str"
         THEN (IF StrLess(a[2], b[2], 1) THEN "T" ELSE "F")
    ELSE "TypeError"

\* s < t for two tuples of the same length: the first position where they
\* differ (by ==) decides, by < on the two elements there.
TupleLess(s, t) ==
    LET differ == {i \in 1..Len(s) : s[i] # t[i]}
        first == CHOOSE i \in differ : \A j \in differ : i <= j
    IN  IF differ = {} THEN "F" ELSE PyLess(s[first], t[first])

\* One insertion of sorted(): e goes after the last element of acc that it is
\* not less than (j is the position under comparison).
RECURSIVE InsertByKey(_, _, _)
InsertByKey(acc, e, j) ==
    IF j = 0 THEN Ok(<<e>> \o acc)
    ELSE LET c == TupleLess(e.k, acc[j].k)
         IN  IF c = "TypeError" THEN Raise("TypeError")
             ELSE IF c = "T" THEN InsertByKey(acc, e, j - 1)
             ELSE Ok(SubSeq(acc, 1, j) \o <<e>> \o SubSeq(acc, j + 1, Len(acc)))

\* A stable sort of keyed elements: insertion, element by element.
RECURSIVE SortKeyed(_, _, _)
SortKeyed(acc, es, i) ==
    IF i > Len(es) THEN Ok(acc)
    ELSE LET r == InsertByKey(acc, es[i], Len(acc))
         IN  IF r.exc # "" THEN r ELSE SortKeyed(r.val, es, i + 1)

Reverse(s) == [i \in 1..Len(s) |-> s[Len(s) + 1 - i]]

\* sorted(xs, key=..., reverse=...) on elements already paired with their keys:
\* stable in both directions (reverse sorts the reversed list and reverses back).
sorted(es, reverse) ==
    IF ~reverse THEN SortKeyed(<<>>, es, 1)
    ELSE LET r == SortKeyed(<<>>, Reverse(es), 1)
         IN  IF r.exc # "" THEN r ELSE Ok(Reverse(r.val))

-----------------------------------------------------------------------------
(* sort_by_keys *)

\* The largest int CPython keeps as one shared object: len() of two tuples of
\* the same length up to here is the same object, beyond it the language leaves
\* the identity of two equal ints open.
SmallIntMax == 256

\* A length check that only notices too many defaults.
IsNotLonger(a, b, distinct) == a > b

\* `a is not b` for two ints freshly computed by len(): different values are
\* different objects; equal small values are one object; for equal larger
\* values the answer is the implementation's (distinct says which).
IsNot(a, b, distinct) ==
    IF a # b THEN TRUE
    ELSE IF a <= SmallIntMax THEN FALSE
    ELSE distinct

\* fkey(d): tuple(get_deep(d, key, default) for key, default in zip(keys, defaults))
FKey(d, keys, defaults) ==
    LET n == IF Len(keys) < Len(defaults) THEN Len(keys) ELSE Len(defaults)
        rs == [i \in 1..n |-> get_deep(d, keys[i], defaults[i])]
        bad == {i \in 1..n : rs[i].exc # ""}
    IN  IF bad # {} THEN rs[CHOOSE i \in bad : \A j \in bad : i <= j]
        ELSE Ok([i \in 1..n |-> rs[i].val])

\* sort_by_keys(dicts_iter, keys, defaults, reverse): what it returns or raises,
\* how many elements it pulled from dicts_iter, and the documents whose sort key
\* it looked up. It materialises dicts_iter first, then checks the lengths.
sort_by_keys(docs, keys, defaults, reverse, distinct) ==
    LET dicts_tuple == docs
        keyed == [i \in 1..Len(dicts_tuple) |->
                    [k |-> FKey(dicts_tuple[i], keys, defaults),
                     d |-> dicts_tuple[i]]]
        bad == {i \in 1..Len(keyed) : keyed[i].k.exc # ""}
        es == [i \in 1..Len(keyed) |-> [k |-> keyed[i].k.val, d |-> keyed[i].d]]
        r == sorted(es, reverse)
    IN  IF IsNot(Len(defaults), Len(keys), distinct)
        THEN [ret |-> Raise("ValueError"), pulled |-> Len(docs), keyed |-> <<>>]
        ELSE IF bad # {}
        THEN [ret |-> Raise("TypeError"), pulled |-> Len(docs),
              keyed |-> SubSeq(dicts_tuple, 1, CHOOSE i \in bad : \A j \in bad : i <= j)]
        ELSE [ret |-> IF r.exc # "" THEN r
                      ELSE Ok(PyList([i \in 1..Len(r.val) |-> r.val[i].d])),
              pulled |-> Len(docs), keyed |-> dicts_tuple]

\* The most documents of a run, and the most keys (and defaults) of a short key list.
MaxDocs == 2

MaxKeys == 2

SortKeyNames == {PyStr(<<"w">>), PyStr(<<"d">>)}

SortDocs ==
    {PyDict(f) : f \in
        {g \in UNION {[D -> {PyInt(0), PyInt(1), PyStr(<<"a">>)}] : D \in SUBSET SortKeyNames} :
            /\ PyStr(<<"w">>) \in DOMAIN g => Tag(g[PyStr(<<"w">>)]) = "int"
            /\ PyStr(<<"d">>) \in DOMAIN g => Tag(g[PyStr(<<"d">>)]) = "str"}}

SortDefaults == {PyInt(0), PyStr(<<>>)}

\* A key list too long for its length to be a small int, with defaults to match.
LongKeys == [i \in 1..(SmallIntMax + 1) |-> PyStr(<<"w">>)]

LongDefaults == [i \in 1..(SmallIntMax + 1) |-> PyInt(0)]

InitSort ==
    /\ op = "sort_by_keys"
    /\ pc = "ready"
    /\ src \in SeqsUpTo(SortDocs, MaxDocs)
    /\ args \in [keys : SeqsUpTo(SortKeyNames, MaxKeys) \cup {LongKeys},
                 defaults : SeqsUpTo(SortDefaults, MaxKeys) \cup {LongDefaults},
                 reverse : BOOLEAN]
    /\ srcPos = 0 /\ items = <<>> /\ idx = 0
    /\ out = <<>> /\ log = <<>> /\ ret = NoRet
    /\ heap = EmptyHeap /\ calls = 0

\* One call of sort_by_keys on a fresh single-pass iterator over src.
CallSortByKeys ==
    /\ op = "sort_by_keys" /\ pc = "ready"
    /\ \E distinct \in BOOLEAN :
         LET r == sort_by_keys(src, args.keys, args.defaults, args.reverse, distinct)
         IN  /\ ret' = r.ret
             /\ srcPos' = r.pulled
             /\ log' = r.keyed
    /\ pc' = "done"
    /\ calls' = calls + 1
    /\ UNCHANGED <<op, args, src, items, idx, out, heap>>

SpecSort == InitSort /\ [][CallSortByKeys]_vars

LengthMismatch == Len(args.defaults) # Len(args.keys)

\* C2 as stated: on a length mismatch sort_by_keys raises ValueError with no
\* element pulled from the docs iterable.
C2_RaisesBeforePulling ==
    (op = "sort_by_keys" /\ pc = "done" /\ LengthMismatch)
        => (ret = Raise("ValueError") /\ srcPos = 0)

\* C2 as amended: on a length mismatch sort_by_keys raises ValueError before
\* it looks up or compares the sort key of any document, but only after it has
\* pulled every element of the docs iterable.
C2_RaisesBeforeKeying ==
    (op = "sort_by_keys" /\ pc = "done" /\ LengthMismatch)
        => (ret = Raise("ValueError") /\ log = <<>> /\ srcPos = Len(src))

C2_Witness ==
    /\ op = "sort_by_keys" /\ pc = "done" /\ LengthMismatch
    /\ Len(src) = MaxDocs /\ srcPos = MaxDocs
    /\ ret = Raise("ValueError")

\* The sort key the claim orders by: get_deep(d, keys[i], defaults[i]) for each i.
KeyTuple(d) ==
    [i \in 1..Len(args.keys) |-> get_deep(d, args.keys[i], args.defaults[i]).val]

\* res is docs reordered by a permutation p that puts the key tuples in
\* ascending lexicographic order and keeps equal tuples in input order.
StableAscending(res, docs) ==
    /\ Len(res) = Len(docs)
    /\ \E p \in [1..Len(docs) -> 1..Len(docs)] :
         /\ \A i, j \in 1..Len(docs) : i # j => p[i] # p[j]
         /\ \A i \in 1..Len(docs) : res[i] = docs[p[i]]
         /\ \A i, j \in 1..Len(docs) : i < j =>
              \/ TupleLess(KeyTuple(docs[p[i]]), KeyTuple(docs[p[j]])) = "T"
              \/ (KeyTuple(docs[p[i]]) = KeyTuple(docs[p[j]]) /\ p[i] < p[j])

\* C3: with as many defaults as keys and reverse=False, sort_by_keys returns the
\* documents in ascending lexicographic order of their key tuples, ties in
\* input order (read with the limitation the specification states itself: the
\* values at a position must be orderable, or the comparison raises).
C3_SortsStablyByKeys ==
    (/\ op = "sort_by_keys" /\ pc = "done"
     /\ Len(args.defaults) = Len(args.keys) /\ ~args.reverse
     /\ ret.exc # "TypeError")
        => (ret.exc = "" /\ StableAscending(ret.val[2], src))

\* What does hold: a call that returns has sorted stably by the key tuples.
SortedWhenReturned ==
    (op = "sort_by_keys" /\ pc = "done" /\ ~args.reverse /\ ret.exc = "")
        => StableAscending(ret.val[2], src)

-----------------------------------------------------------------------------
(* Update combinator, glob matching, the grouping decorator *)

\* e.update(kwargs): the entries of kwargs over those of e.
Update(e, kwargs) ==
    PyDict([k \in DOMAIN e[2] \cup DOMAIN kwargs[2] |->
              IF k \in DOMAIN kwargs[2] THEN kwargs[2][k] ELSE e[2][k]])

\* A replace that updates the mapping it was given and returns it.
replace_dict_in_place(d, kwargs) ==
    [ret |-> Ok(Update(d, kwargs)), d |-> Update(d, kwargs)]

\* A replace in which the entries already present win over the keyword fields.
replace_dict_keep(d, kwargs) == [ret |-> Ok(Update(kwargs, d)), d |-> d]

\* replace(d, **kwargs): e = d.copy(); e.update(kwargs); return e. ret is what
\* the call returns, d is the mapping passed in as the call leaves it. Only dict
\* is registered; any other type raises TypeError.
replace_dict(d, kwargs) ==
    IF Tag(d) # "dict" THEN [ret |-> Raise("TypeError"), d |-> d]
    ELSE LET e == d
         IN  [ret |-> Ok(Update(e, kwargs)), d |-> d]

\* fnmatch(name, pat) on POSIX for patterns of literals, ? and *: does pat from
\* position i on match name from position j on.
RECURSIVE GlobFrom(_, _, _, _)
GlobFrom(pat, name, i, j) ==
    IF i > Len(pat) THEN j > Len(name)
    ELSE IF pat[i] = "*"
         THEN \E k \in j..(Len(name) + 1) : GlobFrom(pat, name, i + 1, k)
    ELSE /\ j <= Len(name)
         /\ (pat[i] = "?" \/ pat[i] = name[j])
         /\ GlobFrom(pat, name, i + 1, j + 1)

\* fnmatch raises TypeError for a name that is not a string.
fnmatch(name, pat) ==
    IF Tag(name) # "str" THEN Raise("TypeError")
    ELSE Ok(GlobFrom(pat[2], name[2], 1, 1))

\* The key "id_path".
IdPath == PyStr(<<"i", "d", "_", "p", "a", "t", "h">>)

Star == PyStr(<<"*">>)

\* id_path_matches(x, match): fnmatch(get(x, "id_path"), match) if match != "*" else True
id_path_matches(x, match) ==
    IF match # Star
    THEN LET g == get(x, IdPath, None)
         IN  IF g.exc # "" THEN g ELSE fnmatch(g.val, match)
    ELSE Ok(TRUE)

\* A predicate of the caller's own, for decorate_group_matching(predicate):
\* the id_path of the document is exactly the pattern.
id_path_is(x, match) ==
    LET g == get(x, IdPath, None) IN IF g.exc # "" THEN g ELSE Ok(g.val = match)

Predicate(name, x, match) ==
    IF name = "id_path_matches" THEN id_path_matches(x, match) ELSE id_path_is(x, match)

\* Scanning the iterator itself for every group.
MaterializePerGroup(started, elems, pos, kept) ==
    [items |-> SubSeq(elems, pos + 1, Len(elems)), pos |-> Len(elems)]

\* tuple(iter) at the start of the generator body, which runs once, on the first
\* next(): every element the iterator has left is pulled. started says the
\* body is past that line; kept is the tuple it made then.
MaterializeOnce(started, elems, pos, kept) ==
    IF started THEN [items |-> kept, pos |-> pos]
    ELSE [items |-> SubSeq(elems, pos + 1, Len(elems)), pos |-> Len(elems)]

\* tuple(item for item in items if predicate(item, pattern)); the first
\* exception of the predicate ends it.
RECURSIVE Matches(_, _, _, _)
Matches(name, its, pattern, i) ==
    IF i > Len(its) THEN Ok(<<>>)
    ELSE LET t == Predicate(name, its[i], pattern)
         IN  IF t.exc # "" THEN t
             ELSE LET rest == Matches(name, its, pattern, i + 1)
                  IN  IF rest.exc # "" THEN rest
                      ELSE Ok((IF t.val THEN <<its[i]>> ELSE <<>>) \o rest.val)

\* The reducer f of the caller: its result is determined by the documents and
\* the keyword options it is called with, and by nothing else.
FResult(docs, opts) == <<"f", docs, opts>>

\* The most groups of a groups mapping, and the most calls of a wrapped function in a run.
MaxGroups == 2

MaxCalls == 2

GroupDocs == {PyDict([k \in {IdPath} |-> PyStr(ip)]) : ip \in {<<"a">>, <<"p", "/", "a">>}}

Patterns == {Star, PyStr(<<"p", "/", "*">>), PyStr(<<"a">>)}

TagKey == PyStr(<<"t">>)

Configs == {EmptyDict, PyDict([k \in {TagKey} |-> PyStr(<<"p">>)])}

DefaultsArgs ==
    {EmptyDict, PyDict([k \in {TagKey} |-> PyStr(<<"d">>)]),
     PyDict([k \in {PyStr(<<"n">>)} |-> PyInt(1)])}

\* defaults left out of the call: the default argument {} is used.
Omitted == <<"omitted">>

\* A groups mapping in insertion order: its patterns are distinct.
GroupsArgs ==
    {g \in SeqsUpTo([pattern : Patterns, config : Configs], MaxGroups) :
        \A i, j \in 1..Len(g) : i # j => g[i].pattern # g[j].pattern}

InitGroup ==
    /\ op = "f_match_group"
    /\ pc = "idle"
    /\ args = [predicate |-> "id_path_matches", groups |-> <<>>, defaults |-> Omitted]
    /\ src = <<>> /\ srcPos = 0 /\ items = <<>> /\ idx = 0
    /\ out = <<>> /\ log = <<>> /\ ret = NoRet
    /\ heap = EmptyHeap /\ calls = 0

\* The mapping object the current call's defaults parameter is bound to.
DefaultsRef == IF args.defaults = Omitted THEN "shared" ELSE "passed"

\* f_match_group(iter, groups, defaults): calling a generator function runs none
\* of its body.
CallGroup ==
    /\ op = "f_match_group" /\ pc = "idle" /\ calls < MaxCalls
    /\ \E docs \in SeqsUpTo(GroupDocs, MaxDocs), g \in GroupsArgs,
          d \in DefaultsArgs \cup {Omitted},
          p \in {"id_path_matches", "id_path_is"} :
         /\ src' = docs
         /\ args' = [predicate |-> p, groups |-> g, defaults |-> d]
         /\ heap' = IF d = Omitted THEN heap ELSE [heap EXCEPT !.passed = d]
    /\ pc' = "created"
    /\ srcPos' = 0 /\ items' = <<>> /\ idx' = 0
    /\ out' = <<>> /\ log' = <<>> /\ ret' = NoRet
    /\ calls' = calls + 1
    /\ UNCHANGED op

\* next() on the generator: the body runs to its next yield, or to its end.
NextGroup ==
    /\ op = "f_match_group" /\ pc \in {"created", "suspended"}
    /\ LET m == MaterializeOnce(pc # "created", src, srcPos, items)
           more == idx < Len(args.groups)
           g == args.groups[idx + 1]
           matches == Matches(args.predicate, m.items, g.pattern, 1)
           r == replace_dict(heap[DefaultsRef], g.config)
       IN  /\ items' = m.items
           /\ srcPos' = m.pos
           /\ IF ~more
              THEN /\ pc' = "exhausted"
                   /\ ret' = Raise("StopIteration")
                   /\ UNCHANGED <<idx, out, log, heap>>
              ELSE IF matches.exc # ""
              THEN /\ pc' = "raised"
                   /\ ret' = matches
                   /\ UNCHANGED <<idx, out, log, heap>>
              ELSE /\ heap' = [heap EXCEPT ![DefaultsRef] = r.d]
                   /\ IF r.ret.exc # ""
                      THEN /\ pc' = "raised"
                           /\ ret' = r.ret
                           /\ UNCHANGED <<idx, out, log>>
                      ELSE /\ log' = Append(log, [docs |-> matches.val, opts |-> r.ret.val])
                           /\ out' = Append(out, FResult(matches.val, r.ret.val))
                           /\ idx' = idx + 1
                           /\ pc' = "suspended"
                           /\ ret' = Ok(FResult(matches.val, r.ret.val))
    /\ UNCHANGED <<op, args, src, calls>>

\* The caller lets go of the generator, at any point of its consumption; the
\* mapping objects live on.
DropGroup ==
    /\ op = "f_match_group" /\ pc \in {"created", "suspended", "exhausted", "raised"}
    /\ pc' = "idle"
    /\ args' = [predicate |-> "id_path_matches", groups |-> <<>>, defaults |-> Omitted]
    /\ src' = <<>> /\ srcPos' = 0 /\ items' = <<>> /\ idx' = 0
    /\ out' = <<>> /\ log' = <<>> /\ ret' = NoRet
    /\ UNCHANGED <<op, heap, calls>>

SpecGroup == InitGroup /\ [][CallGroup \/ NextGroup \/ DropGroup]_vars

\* The documents of the whole source for which the predicate holds on the
\* pattern, in source order.
Selected(pattern) ==
    LET Holds(d) == Predicate(args.predicate, d, pattern).val
    IN  SelectSeq(src, Holds)

\* The defaults mapping as the caller gave it ({} when left out).
GivenDefaults == IF args.defaults = Omitted THEN EmptyDict ELSE args.defaults

\* The keyword options of group i: the given defaults, overridden by its config.
Options(i) ==
    LET c == args.groups[i].config[2]
        d == GivenDefaults[2]
    IN  PyDict([k \in DOMAIN d \cup DOMAIN c |-> IF k \in DOMAIN c THEN c[k] ELSE d[k]])

\* C4: the wrapped function yields one result per entry of groups, in the order
\* of groups; the i-th is f(the documents matching pattern i, in source order,
\* **defaults overridden by config i); a document matching several patterns is
\* in each of their results.
C4_OneResultPerGroup ==
    (op = "f_match_group" /\ pc # "idle")
        => /\ pc # "raised"
           /\ Len(out) <= Len(args.groups)
           /\ \A i \in 1..Len(out) :
                out[i] = FResult(Selected(args.groups[i].pattern), Options(i))
           /\ pc = "exhausted" => Len(out) = Len(args.groups)

\* Fully consumed: two overlapping groups, both results holding the same
\* document, and a config entry that overrides a default.
C4_Witness ==
    /\ op = "f_match_group" /\ pc = "exhausted"
    /\ Len(args.groups) = 2 /\ Len(out) = 2
    /\ \E d \in GroupDocs :
         /\ \E i \in 1..Len(out[1][2]) : out[1][2][i] = d
         /\ \E i \in 1..Len(out[2][2]) : out[2][2][i] = d
    /\ Len(out[2][2]) = 2
    /\ TagKey \in DOMAIN GivenDefaults[2]
    /\ TagKey \in DOMAIN args.groups[1].config[2]

\* C9: replace leaves the mapping it is given as it was: through any sequence
\* of calls of a wrapped function, the shared default {} stays empty and the
\* defaults mapping the caller passed keeps its entries, and the options each
\* call of f gets are made of the defaults as given and the group's config.
C9_DefaultsNeverMutated ==
    op = "f_match_group"
        => /\ heap.shared = EmptyDict
           /\ (pc # "idle" /\ args.defaults # Omitted) => heap.passed = args.defaults
           /\ pc # "idle" => \A i \in 1..Len(log) : log[i].opts = Options(i)

\* A later call, made without defaults, whose replace has overridden an entry.
C9_Witness ==
    /\ op = "f_match_group" /\ calls = MaxCalls /\ pc = "suspended"
    /\ args.defaults = Omitted
    /\ Len(log) = 2
    /\ log[1].opts # EmptyDict
    /\ log[2].opts = EmptyDict

\* C10: the source is pulled once, whole, on the first next(): n pulls in
\* all, and every group, the last included, is selected from all n documents.
C10_MaterializedOnce ==
    op = "f_match_group"
        => /\ pc = "created" => srcPos = 0
           /\ pc \in {"suspended", "exhausted"} =>
                /\ srcPos = Len(src)
                /\ items = src
                /\ \A i \in 1..Len(log) : log[i].docs = Selected(args.groups[i].pattern)

\* Fully consumed, several groups over several documents, the last group not empty.
C10_Witness ==
    /\ op = "f_match_group" /\ pc = "exhausted"
    /\ Len(args.groups) = MaxGroups /\ Len(src) = MaxDocs
    /\ srcPos = MaxDocs
    /\ Len(log) = MaxGroups
    /\ log[MaxGroups].docs = src

-----------------------------------------------------------------------------
(* tap_each *)

\* The most elements of the source of a tap_each or chunk run.
MaxItems == 3

Elems == {PyInt(0), PyInt(1), PyInt(2)}

\* A tap that never calls f.
TapSkip(calls_of_f, x) == calls_of_f

\* f(x): the side effect of the caller's function, seen as the list of the
\* arguments it has been called with.
TapCall(calls_of_f, x) == Append(calls_of_f, x)

InitTap ==
    /\ op = "tap_each"
    /\ pc = "created"
    /\ src \in SeqsUpTo(Elems, MaxItems)
    /\ args = <<>>
    /\ srcPos = 0 /\ items = <<>> /\ idx = 0
    /\ out = <<>> /\ log = <<>> /\ ret = NoRet
    /\ heap = EmptyHeap /\ calls = 0

\* next() resumes the body: `for x in iter` pulls the next element, or ends.
TapPull ==
    /\ op = "tap_each" /\ pc \in {"created", "suspended"}
    /\ IF srcPos < Len(src)
       THEN /\ srcPos' = srcPos + 1
            /\ items' = <<src[srcPos + 1]>>
            /\ pc' = "pulled"
            /\ ret' = NoRet
       ELSE /\ pc' = "exhausted"
            /\ ret' = Raise("StopIteration")
            /\ UNCHANGED <<srcPos, items>>
    /\ UNCHANGED <<op, args, src, idx, out, log, heap, calls>>

\* f(x)
TapApply ==
    /\ op = "tap_each" /\ pc = "pulled"
    /\ log' = TapCall(log, items[1])
    /\ pc' = "applied"
    /\ UNCHANGED <<op, args, src, srcPos, items, idx, out, ret, heap, calls>>

\* yield x
TapYield ==
    /\ op = "tap_each" /\ pc = "applied"
    /\ out' = Append(out, items[1])
    /\ ret' = Ok(items[1])
    /\ pc' = "suspended"
    /\ UNCHANGED <<op, args, src, srcPos, items, idx, log, heap, calls>>

SpecTap == InitTap /\ [][TapPull \/ TapApply \/ TapYield]_vars

\* C5: constructing tap_each calls f on nothing; whenever the consumer holds
\* k elements, they are the first k of the source, unchanged, and f has been
\* called exactly on them, in order; f(x) has run when x is about to be handed
\* over; f is never applied to an element that was not pulled.
C5_TapIsLazy ==
    op = "tap_each"
        => /\ out = SubSeq(src, 1, Len(out))
           /\ pc = "created" => (log = <<>> /\ srcPos = 0)
           /\ pc \in {"created", "suspended", "exhausted"} =>
                (log = out /\ srcPos = Len(out))
           /\ pc = "pulled" => (log = out /\ srcPos = Len(out) + 1)
           /\ pc = "applied" => (log = Append(out, src[srcPos]) /\ srcPos = Len(out) + 1)
           /\ Len(log) <= srcPos
           /\ pc = "exhausted" => out = src

\* Part of the source consumed, part of it never pulled.
C5_Witness ==
    /\ op = "tap_each" /\ pc = "suspended"
    /\ Len(src) = MaxItems /\ Len(out) = 2 /\ Len(log) = 2
    /\ src[1] # src[2]

-----------------------------------------------------------------------------
(* chunk *)

\* The largest batch size of a chunk run.
MaxChunk == 3

\* A final flush that does not look at the batch.
FlushAlways(batch) == TRUE

\* if len(chunk) > 0: yield chunk
FlushTail(batch) == Len(batch) > 0

\* The loop of chunk from the element after pos on, with the batch built so far:
\* it stops at the yield of a full batch, or at the end of the source.
RECURSIVE ChunkLoop(_, _, _, _)
ChunkLoop(elems, pos, n, batch) ==
    IF pos >= Len(elems) THEN [full |-> FALSE, batch |-> batch, pos |-> pos]
    ELSE LET b == Append(batch, elems[pos + 1])
         IN  IF Len(b) = n THEN [full |-> TRUE, batch |-> b, pos |-> pos + 1]
             ELSE ChunkLoop(elems, pos + 1, n, b)

InitChunk ==
    /\ op = "chunk"
    /\ pc = "created"
    /\ src \in SeqsUpTo(Elems, MaxItems)
    /\ args \in [n : 0..MaxChunk]
    /\ srcPos = 0 /\ items = <<>> /\ idx = 0
    /\ out = <<>> /\ log = <<>> /\ ret = NoRet
    /\ heap = EmptyHeap /\ calls = 0

\* next() on the generator of chunk: to the next yield, or to the end.
ChunkNext ==
    /\ op = "chunk" /\ pc \in {"created", "suspended", "flushed"}
    /\ LET r == ChunkLoop(src, srcPos, args.n, <<>>)
       IN  IF pc # "flushed" /\ (r.full \/ FlushTail(r.batch))
           THEN /\ out' = Append(out, PyList(r.batch))
                /\ ret' = Ok(PyList(r.batch))
                /\ srcPos' = r.pos
                /\ pc' = IF r.full THEN "suspended" ELSE "flushed"
           ELSE /\ ret' = Raise("StopIteration")
                /\ srcPos' = r.pos
                /\ pc' = "exhausted"
                /\ UNCHANGED out
    /\ UNCHANGED <<op, args, src, items, idx, log, heap, calls>>

SpecChunk == InitChunk /\ [][ChunkNext]_vars

RECURSIVE Concat(_, _)
Concat(batches, i) ==
    IF i > Len(batches) THEN <<>> ELSE batches[i][2] \o Concat(batches, i + 1)

\* C8: for n >= 1 the batches are never empty and never longer than n, all but
\* the last have exactly n elements, they are the source cut in order, and once
\* the generator is exhausted they are the whole source (so none for an empty one).
C8_ChunkPartitions ==
    (op = "chunk" /\ args.n >= 1)
        => /\ \A i \in 1..Len(out) : Len(out[i][2]) >= 1 /\ Len(out[i][2]) <= args.n
           /\ \A i \in 1..(Len(out) - 1) : Len(out[i][2]) = args.n
           /\ Concat(out, 1) = SubSeq(src, 1, srcPos)
           /\ pc = "exhausted" => (srcPos = Len(src) /\ Concat(out, 1) = src)
           /\ (pc = "exhausted" /\ src = <<>>) => out = <<>>

\* Fully consumed, with a full batch and a shorter last batch.
C8_Witness ==
    /\ op = "chunk" /\ pc = "exhausted" /\ args.n = 2
    /\ Len(src) = 3 /\ Len(out) = 2
    /\ Len(out[1][2]) = 2 /\ Len(out[2][2]) = 1

-----------------------------------------------------------------------------
(* compose *)

\* The most functions given to compose.
MaxFns == 3

FnNames == {"f", "g", "h"}

\* A composition the other way round: lambda x: e(f(x)).
compose2_flipped(f, e) == <<"compose2", e, f>>

\* compose2(f, e): lambda x: f(e(x)), kept as the closure over f and e.
compose2(f, e) == <<"compose2", f, e>>

\* A function of the caller, by its name.
Fn(name) == <<"fn", name>>

\* reduce(compose2, fns, fn): a left fold from fn over fns[i..].
RECURSIVE reduce(_, _, _)
reduce(fns, acc, i) ==
    IF i > Len(fns) THEN acc ELSE reduce(fns, compose2(acc, Fn(fns[i])), i + 1)

\* compose(fn, *fns); all is <<fn>> \o fns, by name.
compose(all) == reduce(all, Fn(all[1]), 2)

\* Calling a function on x: the value, and the caller's functions in the order
\* they ran. The value of the caller's function named n on x is <<n, x>>; the
\* lambda of compose2 runs e, then f on what e returned.
RECURSIVE Apply(_, _)
Apply(fn, x) ==
    IF fn[1] = "fn" THEN [val |-> <<fn[2], x>>, trace |-> <<fn[2]>>]
    ELSE LET inner == Apply(fn[3], x)
             outer == Apply(fn[2], inner.val)
         IN  [val |-> outer.val, trace |-> inner.trace \o outer.trace]

InitCompose ==
    /\ op = "compose"
    /\ pc = "ready"
    /\ args \in [fns : SeqsUpTo(FnNames, MaxFns) \ {<<>>}, x : {PyInt(0), PyInt(1)}]
    /\ src = <<>> /\ srcPos = 0 /\ items = <<>> /\ idx = 0
    /\ out = <<>> /\ log = <<>> /\ ret = NoRet
    /\ heap = EmptyHeap /\ calls = 0

\* composed = compose(fn, *fns): no function of the caller runs.
CallCompose ==
    /\ op = "compose" /\ pc = "ready"
    /\ items' = <<compose(args.fns)>>
    /\ pc' = "composed"
    /\ UNCHANGED <<op, args, src, srcPos, idx, out, log, ret, heap, calls>>

\* composed(x)
CallComposed ==
    /\ op = "compose" /\ pc = "composed"
    /\ LET r == Apply(items[1], args.x)
       IN  /\ ret' = Ok(r.val)
           /\ log' = r.trace
    /\ pc' = "done"
    /\ calls' = calls + 1
    /\ UNCHANGED <<op, args, src, srcPos, items, idx, out, heap>>

SpecCompose == InitCompose /\ [][CallCompose \/ CallComposed]_vars

\* C7 as stated: the functions run in argument order, the leftmost first on
\* the raw input.
C7_LeftmostFirst ==
    (op = "compose" /\ pc = "done") => log = args.fns

\* f(g(h(x))) for <<f, g, h>>
RECURSIVE Nested(_, _, _)
Nested(fns, i, x) ==
    IF i > Len(fns) THEN x ELSE <<fns[i], Nested(fns, i + 1, x)>>

\* C7 as amended: the functions run in reverse argument order, the rightmost
\* first on the raw input: compose(f, g, h)(x) = f(g(h(x))).
C7_RightmostFirst ==
    (op = "compose" /\ pc = "done")
        => (log = Reverse(args.fns) /\ ret = Ok(Nested(args.fns, 1, args.x)))

C7_Witness ==
    /\ op = "compose" /\ pc = "done"
    /\ args.fns = <<"f", "g", "h">>
    /\ log = <<"h", "g", "f">>

-----------------------------------------------------------------------------
(* The predicate library and the query combinators *)

_EMPTY_TUPLE == PyTuple(<<>>)

\* value in collection: membership by == in a list or tuple, substring in a
\* str (TypeError unless value is a str), key in a dict; TypeError for a
\* collection that is no container.
PyIn(value, collection) ==
    IF Tag(collection) \in {"list", "tuple"}
    THEN Ok(\E i \in 1..Len(collection[2]) : collection[2][i] = value)
    ELSE IF Tag(collection) = "str"
    THEN (IF Tag(value) # "str" THEN Raise("TypeError")
          ELSE Ok(\E i \in 0..(Len(collection[2]) - Len(value[2])) :
                    SubSeq(collection[2], i + 1, i + Len(value[2])) = value[2]))
    ELSE IF Tag(collection) = "dict" THEN Ok(value \in DOMAIN collection[2])
    ELSE Raise("TypeError")

\* any_in(collection, values), from values[i] on
RECURSIVE any_in(_, _, _)
any_in(collection, values, i) ==
    IF i > Len(values) THEN Ok(FALSE)
    ELSE LET r == PyIn(values[i], collection)
         IN  IF r.exc # "" THEN r
             ELSE IF r.val THEN Ok(TRUE)
             ELSE any_in(collection, values, i + 1)

\* contains(x, key, value): value in get_deep(x, key, _EMPTY_TUPLE)
contains(x, key, value) ==
    LET r == get_deep(x, key, _EMPTY_TUPLE)
    IN  IF r.exc # "" THEN r ELSE PyIn(value, r.val)

\* has_key(x, key): get_deep(x, key) != None
has_key(x, key) ==
    LET r == get_deep(x, key, None)
    IN  IF r.exc # "" THEN r ELSE Ok(r.val # None)

Not(r) == IF r.exc # "" THEN r ELSE Ok(~r.val)

\* The condition of each query combinator on one document x.
Test(q, x) ==
    LET r == get_deep(x, q.key, None)
        c == get_deep(x, q.key, _EMPTY_TUPLE)
    IN  CASE q.name = "where" -> (IF r.exc # "" THEN r ELSE Ok(r.val = q.arg))
          [] q.name = "where_not" -> (IF r.exc # "" THEN r ELSE Ok(r.val # q.arg))
          [] q.name = "where_key" -> has_key(x, q.key)
          [] q.name = "where_not_key" -> Not(has_key(x, q.key))
          [] q.name = "where_contains" -> contains(x, q.key, q.arg)
          [] q.name = "where_contains_any" ->
                (IF c.exc # "" THEN c ELSE any_in(c.val, q.arg[2], 1))
          [] q.name = "where_matches" ->
                (IF r.exc # "" THEN r ELSE fnmatch(r.val, q.arg))
          [] q.name = "match_by_id_path" -> id_path_matches(x, q.arg)

\* A filter that pulls its whole source on the first request.
FilterNextEager(q, elems, pos) ==
    [kind |-> IF \E i \in (pos + 1)..Len(elems) : Test(q, elems[i]) = Ok(TRUE)
              THEN "yield" ELSE "stop",
     exc |-> "", pos |-> Len(elems)]

\* (x for x in dicts if test(x)) resumed with pos elements pulled: it pulls
\* until an element passes the test (yield), the test raises, or the source ends.
RECURSIVE FilterNext(_, _, _)
FilterNext(q, elems, pos) ==
    IF pos >= Len(elems) THEN [kind |-> "stop", exc |-> "", pos |-> pos]
    ELSE LET t == Test(q, elems[pos + 1])
         IN  IF t.exc # "" THEN [kind |-> "raise", exc |-> t.exc, pos |-> pos + 1]
             ELSE IF t.val THEN [kind |-> "yield", exc |-> "", pos |-> pos + 1]
             ELSE FilterNext(q, elems, pos + 1)

TagsKey == PyStr(<<"g">>)

StrA == PyStr(<<"a">>)

StrX == PyStr(<<"x">>)

StrY == PyStr(<<"y">>)

QueryDocs ==
    {PyDict(f) : f \in
        {g \in UNION {[D -> {StrA, PyStr(<<"b">>), PyList(<<StrX>>), PyList(<<StrX, StrY>>)}] :
                        D \in {{IdPath}, {IdPath, TagsKey}}} :
            /\ Tag(g[IdPath]) = "str"
            /\ TagsKey \in DOMAIN g => Tag(g[TagsKey]) = "list"}}

QueryKeys == {IdPath, TagsKey}

Queries ==
    [name : {"where", "where_not"}, key : QueryKeys, arg : {StrA, None}]
    \cup [name : {"where_key", "where_not_key"}, key : QueryKeys, arg : {None}]
    \cup [name : {"where_contains"}, key : QueryKeys, arg : {StrA, StrY}]
    \cup [name : {"where_contains_any"}, key : QueryKeys,
          arg : {PyList(<<StrY, StrA>>), PyList(<<>>)}]
    \cup [name : {"where_matches"}, key : QueryKeys, arg : {StrA, Star}]
    \cup [name : {"match_by_id_path"}, key : {IdPath}, arg : {StrA, Star, PyStr(<<"?">>)}]

InitQuery ==
    /\ op = "query"
    /\ pc = "ready"
    /\ src \in SeqsUpTo(QueryDocs, MaxDocs)
    /\ args \in Queries
    /\ srcPos = 0 /\ items = <<>> /\ idx = 0
    /\ out = <<>> /\ log = <<>> /\ ret = NoRet
    /\ heap = EmptyHeap /\ calls = 0

\* where(dicts, key, value) and the others: the generator is made, none of its
\* body runs.
CallQuery ==
    /\ op = "query" /\ pc = "ready"
    /\ pc' = "created"
    /\ calls' = calls + 1
    /\ UNCHANGED <<op, args, src, srcPos, items, idx, out, log, ret, heap>>

\* next() on the generator.
QueryNext ==
    /\ op = "query" /\ pc \in {"created", "suspended"}
    /\ LET r == FilterNext(args, src, srcPos)
       IN  /\ srcPos' = r.pos
           /\ pc' = CASE r.kind = "yield" -> "suspended"
                      [] r.kind = "raise" -> "raised"
                      [] r.kind = "stop" -> "exhausted"
           /\ out' = IF r.kind = "yield" THEN Append(out, src[r.pos]) ELSE out
           /\ ret' = CASE r.kind = "yield" -> Ok(src[r.pos])
                       [] r.kind = "raise" -> Raise(r.exc)
                       [] r.kind = "stop" -> Raise("StopIteration")
    /\ UNCHANGED <<op, args, src, items, idx, log, heap, calls>>

SpecQuery == InitQuery /\ [][CallQuery \/ QueryNext]_vars

\* The document satisfies the predicate of the query.
Satisfies(d) == Test(args, d) = Ok(TRUE)

\* The satisfying documents among the first n of the source, in source order.
SatisfyingIn(n) == SelectSeq(SubSeq(src, 1, n), Satisfies)

\* The position in the source of the k-th satisfying document (0 for k = 0).
MatchIndex(k) ==
    IF k = 0 THEN 0
    ELSE CHOOSE j \in 1..Len(src) : Satisfies(src[j]) /\ Len(SatisfyingIn(j)) = k

\* C6 as stated: construction pulls nothing, and whenever the consumer has
\* received k results the source stands exactly at the k-th satisfying
\* document, the results being the satisfying documents in source order.
C6_NeverBeyondLastResult ==
    (op = "query" /\ pc # "raised")
        => /\ pc \in {"ready", "created"} => srcPos = 0
           /\ out = SatisfyingIn(srcPos)
           /\ srcPos = MatchIndex(Len(out))

\* C6 as amended: construction pulls nothing; while every request so far was
\* answered by a result, the source stands exactly at the k-th satisfying
\* document; a request that finds no further satisfying document has pulled the
\* source to its end; the results are the satisfying documents in source order
\* and no element is pulled twice.
C6_LazyUntilExhausted ==
    op = "query"
        => /\ pc \in {"ready", "created"} => (srcPos = 0 /\ out = <<>>)
           /\ srcPos <= Len(src)
           /\ pc # "raised" => out = SatisfyingIn(srcPos)
           /\ pc = "suspended" => srcPos = MatchIndex(Len(out))
           /\ pc = "exhausted" => (srcPos = Len(src) /\ out = SatisfyingIn(Len(src)))

\* A result received with a part of the source still unpulled.
C6_Witness ==
    /\ op = "query" /\ pc = "suspended"
    /\ Len(out) = 1 /\ srcPos = 1 /\ Len(src) = 2
    /\ ~Satisfies(src[2])

-----------------------------------------------------------------------------
(* All operations together: a run exercises one of them. *)

Init ==
    \/ InitGetDeep
    \/ InitSort
    \/ InitGroup
    \/ InitTap
    \/ InitChunk
    \/ InitCompose
    \/ InitQuery

Next ==
    \/ CallGetDeep
    \/ CallSortByKeys
    \/ CallGroup
    \/ NextGroup
    \/ DropGroup
    \/ TapPull
    \/ TapApply
    \/ TapYield
    \/ ChunkNext
    \/ CallCompose
    \/ CallComposed
    \/ CallQuery
    \/ QueryNext

Spec == Init /\ [][Next]_vars

=============================================================================
